---- MODULE Spec2Model ----
(***************************************************************************)
(* The Azure DevOps DataUpdateCoordinator                                  *)
(* (homeassistant/components/azure_devops/coordinator.py).                 *)
(*                                                                         *)
(* The coordinator wraps three calls of the remote DevOpsClient            *)
(* (authorize, get_project, get_builds) in ado_exception_none_handler and  *)
(* assembles an AzureDevOpsData envelope on every refresh.  The client is  *)
(* an external collaborator: each of its calls is a nondeterministic       *)
(* choice among raising, returning None and returning a value.             *)
(***************************************************************************)
EXTENDS Integers, Sequences, FiniteSets

VARIABLES
    organization,   \* self.organization
    project,        \* self.project (Unset until the attribute is assigned)
    authorized,     \* self.client.authorized
    inflight,       \* refresh cycles suspended in "await self._get_builds(...)"
    started,        \* number of refresh cycles entered so far
    fetches,        \* number of client.get_builds calls issued so far
    last,           \* the operation that completed last, with what it raised/returned
    data,           \* the envelope returned by the latest successful refresh
    prevData,       \* the envelope returned by the successful refresh before it
    hostPc          \* position of the host integration driving the coordinator

vars == <<organization, project, authorized, inflight, started, fetches,
          last, data, prevData, hostPc>>

----------------------------------------------------------------------------
(* Bounds of the model *)

MaxCycles == 2      \* refresh cycles entered in one behaviour
MaxBuilds == 2      \* longest build list the client returns

----------------------------------------------------------------------------
(* Python values *)

None_ == [t |-> "None"]
Unset == [t |-> "unset"]
Bool(b) == [t |-> "bool", b |-> b]
List(l) == [t |-> "list", items |-> l]
DevOpsProject(n) == [t |-> "DevOpsProject", name |-> n]
AzureDevOpsData(o, p, b) ==
    [t |-> "AzureDevOpsData", organization |-> o, project |-> p, builds |-> b]

BUILDS_QUERY == "?queryOrder=queueTimeDescending&maxBuildsPerDefinition=1"

(* How a call ends: it returns a value or raises an exception (with its      *)
(* message and the exception it was raised from).                           *)
Return(v) == [kind |-> "return", value |-> v, exc |-> "", msg |-> "", cause |-> ""]
Raise(e, m, c) == [kind |-> "raise", value |-> None_, exc |-> e, msg |-> m, cause |-> c]
NoCall == [kind |-> "none", value |-> None_, exc |-> "", msg |-> "", cause |-> ""]

(* Exception classes.  aiohttp.ClientError and a subclass of it are caught  *)
(* by "except aiohttp.ClientError"; the others are not.                     *)
ClientErrors == {"ClientError", "ClientConnectionError"}
OtherErrors == {"TimeoutError"}

----------------------------------------------------------------------------
(* Inputs *)

Organizations == {"org1", "org2"}
ProjectNames == {"proj1", "proj2"}
Tokens == {"good-token", "bad-token"}
BuildIds == {1, 2}

RECURSIVE SeqsUpTo(_, _)
SeqsUpTo(S, n) ==
    IF n = 0 THEN {<<>>}
    ELSE LET shorter == SeqsUpTo(S, n - 1)
         IN  shorter \cup {Append(s, x) : s \in shorter, x \in S}

BuildLists == SeqsUpTo(BuildIds, MaxBuilds)

(* What the remote client can do on each of its calls. *)
ClientRaises == {Raise(e, "", "") : e \in ClientErrors \cup OtherErrors}
ClientAuthorizeOutcomes == ClientRaises \cup {Return(None_)}
ClientGetProjectOutcomes(name) ==
    ClientRaises \cup {Return(None_), Return(DevOpsProject(name))}
ClientGetBuildsOutcomes ==
    ClientRaises \cup {Return(None_)} \cup {Return(List(l)) : l \in BuildLists}
Cancelled == Raise("CancelledError", "", "")

----------------------------------------------------------------------------
(* ado_exception_none_handler *)

(* "except Exception" in place of "except aiohttp.ClientError". *)
IsAnyException(e) == TRUE

IsClientError(e) == e \in ClientErrors

(* The handler without its try/except: a transport error escapes raw. *)
handler_uncaught(o) ==
    IF o.kind = "raise" THEN o
    ELSE IF o.value = None_
         THEN Raise("UpdateFailed", "No data returned from Azure DevOps", "")
         ELSE o

(* The handler without its "response is None" test. *)
handler_none_passed(o) ==
    IF o.kind = "raise"
    THEN IF IsClientError(o.exc) THEN Raise("UpdateFailed", "", o.exc) ELSE o
    ELSE o

(* The handler translating every exception but a cancellation. *)
handler_catch_all(o) ==
    IF o.kind = "raise"
    THEN IF o.exc # "CancelledError" THEN Raise("UpdateFailed", "", o.exc) ELSE o
    ELSE IF o.value = None_
         THEN Raise("UpdateFailed", "No data returned from Azure DevOps", "")
         ELSE o

handler(o) ==
    IF o.kind = "raise"
    THEN IF IsClientError(o.exc) THEN Raise("UpdateFailed", "", o.exc) ELSE o
    ELSE IF o.value = None_
         THEN Raise("UpdateFailed", "No data returned from Azure DevOps", "")
         ELSE o

----------------------------------------------------------------------------
(* The coordinator's operations *)

(* Body of authorize: c is how client.authorize ended, flag is              *)
(* client.authorized after it.                                              *)
(* authorize reporting the flag instead of raising on it. *)
authorize_body_flag_returned(c, flag) ==
    IF c.kind = "raise" THEN c ELSE Return(Bool(flag))

(* authorize without its post-condition check. *)
authorize_body_unchecked(c, flag) ==
    IF c.kind = "raise" THEN c ELSE Return(Bool(TRUE))

authorize_body(c, flag) ==
    IF c.kind = "raise" THEN c
    ELSE IF ~flag
         THEN Raise("ConfigEntryAuthFailed",
                    "Could not authorize with Azure DevOps. You will need to update your token",
                    "")
         ELSE Return(Bool(TRUE))

authorize(c, flag) == handler(authorize_body(c, flag))

get_project(c) == handler(c)

_get_builds(c) == handler(c)

(* The arguments of the client.get_builds call of a refresh. *)
(* get_builds called with its first two arguments swapped. *)
GetBuildsCall_swapped(org, proj) ==
    [op |-> "get_builds", org |-> proj.name, name |-> org, query |-> BUILDS_QUERY]

GetBuildsCall(org, proj) ==
    [op |-> "get_builds", org |-> org, name |-> proj.name, query |-> BUILDS_QUERY]

(* _async_update_data after "await self._get_builds(...)" ended as h. *)
(* A refresh that appends the fetched builds to those of the envelope before. *)
_async_update_data_merging(h) ==
    IF h.kind = "raise" THEN h
    ELSE IF data = Unset
         THEN Return(AzureDevOpsData(organization, project, h.value))
         ELSE Return(AzureDevOpsData(organization, project,
                                     List(data.builds.items \o h.value.items)))

(* A refresh that answers a failed fetch with an envelope without builds. *)
_async_update_data_partial(h) ==
    IF h.kind = "raise" /\ h.exc = "UpdateFailed"
    THEN Return(AzureDevOpsData(organization, project, List(<<>>)))
    ELSE IF h.kind = "raise" THEN h
         ELSE Return(AzureDevOpsData(organization, project, h.value))

_async_update_data(h) ==
    IF h.kind = "raise" THEN h
    ELSE Return(AzureDevOpsData(organization, project, h.value))

Last(op, id, call, resp, inner, out) ==
    [op |-> op, id |-> id, call |-> call, resp |-> resp, inner |-> inner, out |-> out]

NoClientCall == [op |-> "none", org |-> "", name |-> "", query |-> ""]

Init ==
    /\ organization \in Organizations
    /\ project = Unset
    /\ authorized = FALSE
    /\ inflight = {}
    /\ started = 0
    /\ fetches = 0
    /\ last = Last("init", 0, NoClientCall, NoCall, NoCall, NoCall)
    /\ data = Unset
    /\ prevData = Unset
    /\ hostPc = "detached"

(* authorize(personal_access_token): the client call either raises (and may *)
(* drop its authorized flag) or completes with the flag set or cleared.     *)
AuthorizeStep(token, c, flag) ==
    /\ authorized' = flag
    /\ last' = Last("authorize", 0,
                    [op |-> "authorize", org |-> organization, name |-> token, query |-> ""],
                    c, authorize_body(c, flag), authorize(c, flag))
    /\ UNCHANGED <<organization, project, inflight, started, fetches, data, prevData>>

(* How client.authorize can end, with client.authorized after it: a call   *)
(* that raises leaves the flag as it was or cleared, a call that completes  *)
(* has set or cleared it.                                                   *)
ClientAuthorizeResults ==
    {r \in [c : ClientAuthorizeOutcomes, flag : BOOLEAN] :
        r.c.kind = "raise" => r.flag \in {authorized, FALSE}}

Authorize ==
    /\ hostPc = "detached"
    /\ \E token \in Tokens : \E r \in ClientAuthorizeResults :
           AuthorizeStep(token, r.c, r.flag)
    /\ UNCHANGED hostPc

GetProjectStep(name, c) ==
    /\ last' = Last("get_project", 0,
                    [op |-> "get_project", org |-> organization, name |-> name, query |-> ""],
                    c, c, get_project(c))
    /\ UNCHANGED <<organization, authorized, inflight, started, fetches, data, prevData>>

GetProject ==
    /\ hostPc = "detached"
    /\ \E name \in ProjectNames : \E c \in ClientGetProjectOutcomes(name) :
           GetProjectStep(name, c)
    /\ UNCHANGED <<project, hostPc>>

(* The caller keeps the descriptor get_project returned on the coordinator  *)
(* (coordinator.project = ...), once per coordinator.                       *)
StoreProject ==
    /\ hostPc = "detached"
    /\ project = Unset
    /\ last.op = "get_project"
    /\ last.out.kind = "return"
    /\ project' = last.out.value
    /\ UNCHANGED <<organization, authorized, inflight, started, fetches, last,
                   data, prevData, hostPc>>

(* _async_update_data up to its await.  Reading self.project.name raises    *)
(* AttributeError while the attribute is unassigned; otherwise the          *)
(* get_builds call is issued and the cycle waits for the client.            *)
RefreshBeginStep(trigger) ==
    /\ started < MaxCycles
    /\ started' = started + 1
    /\ IF project = Unset
       THEN /\ last' = Last("refresh", started + 1, NoClientCall, NoCall,
                            Raise("AttributeError", "project", ""),
                            Raise("AttributeError", "project", ""))
            /\ UNCHANGED <<inflight, fetches>>
       ELSE /\ inflight' = inflight \cup
                   {[id |-> started + 1, trigger |-> trigger,
                     call |-> GetBuildsCall(organization, project)]}
            /\ fetches' = fetches + 1
            /\ UNCHANGED last
    /\ UNCHANGED <<organization, project, authorized, data, prevData>>

(* _async_update_data from its await on: the client call of cycle c ended   *)
(* as o (or the task was cancelled while suspended there).                  *)
RefreshEndStep(c, o) ==
    LET out == _async_update_data(_get_builds(o))
    IN  /\ inflight' = inflight \ {c}
        /\ last' = Last("refresh", c.id, c.call, o, o, out)
        /\ data' = IF out.kind = "return" THEN out.value ELSE data
        /\ prevData' = IF out.kind = "return" THEN data ELSE prevData
        /\ UNCHANGED <<organization, project, authorized, started, fetches>>

RefreshBegin ==
    /\ hostPc = "detached"
    /\ RefreshBeginStep("request")
    /\ UNCHANGED hostPc

RefreshComplete ==
    /\ hostPc = "detached"
    /\ \E c \in inflight : \E o \in ClientGetBuildsOutcomes : RefreshEndStep(c, o)
    /\ UNCHANGED hostPc

RefreshCancel ==
    /\ hostPc = "detached"
    /\ \E c \in inflight : RefreshEndStep(c, Cancelled)
    /\ UNCHANGED hostPc

Next ==
    \/ Authorize
    \/ GetProject
    \/ StoreProject
    \/ RefreshBegin
    \/ RefreshComplete
    \/ RefreshCancel

Spec == Init /\ [][Next]_vars

----------------------------------------------------------------------------
(* The host integration: set-up (authorize, then look the project up and    *)
(* keep it on the coordinator), then the update loop, in which a refresh is *)
(* triggered by the update_interval timer or by an explicit request and is  *)
(* not triggered again while one is running.                                *)

InitHost ==
    /\ organization \in Organizations
    /\ project = Unset
    /\ authorized = FALSE
    /\ inflight = {}
    /\ started = 0
    /\ fetches = 0
    /\ last = Last("init", 0, NoClientCall, NoCall, NoCall, NoCall)
    /\ data = Unset
    /\ prevData = Unset
    /\ hostPc = "Unauthenticated"

(* A scheduler that starts a refresh whether or not one is running. *)
CanTrigger_always == TRUE

CanTrigger == inflight = {}

HostAuthorize ==
    /\ hostPc = "Unauthenticated"
    /\ \E token \in Tokens : \E r \in ClientAuthorizeResults :
           AuthorizeStep(token, r.c, r.flag)
    /\ hostPc' = IF last'.out.kind = "return" THEN "Authorized" ELSE "Unauthenticated"

HostGetProject ==
    /\ hostPc = "Authorized"
    /\ \E name \in ProjectNames : \E c \in ClientGetProjectOutcomes(name) :
           GetProjectStep(name, c)
    /\ project' = IF last'.out.kind = "return" THEN last'.out.value ELSE project
    /\ hostPc' = IF last'.out.kind = "return" THEN "Running" ELSE "Authorized"

HostTimerRefresh ==
    /\ hostPc = "Running"
    /\ CanTrigger
    /\ RefreshBeginStep("timer")
    /\ UNCHANGED hostPc

HostRequestRefresh ==
    /\ hostPc = "Running"
    /\ CanTrigger
    /\ RefreshBeginStep("request")
    /\ UNCHANGED hostPc

HostRefreshComplete ==
    /\ hostPc = "Running"
    /\ \E c \in inflight : \E o \in ClientGetBuildsOutcomes : RefreshEndStep(c, o)
    /\ UNCHANGED hostPc

HostUnload ==
    /\ hostPc = "Running"
    /\ \E c \in inflight : RefreshEndStep(c, Cancelled)
    /\ hostPc' = "Unloaded"

NextHost ==
    \/ HostAuthorize
    \/ HostGetProject
    \/ HostTimerRefresh
    \/ HostRequestRefresh
    \/ HostRefreshComplete
    \/ HostUnload

SpecHost == InitHost /\ [][NextHost]_vars

----------------------------------------------------------------------------
(* Properties *)

Wrapped == {"authorize", "get_project", "refresh"}

TransportError(o) == o.kind = "raise" /\ o.exc \in {"ClientError", "ClientConnectionError"}

UpdateFailed(o) == o.kind = "raise" /\ o.exc = "UpdateFailed"

(* C1: whenever the client call of authorize, get_project or the build      *)
(* fetch of a refresh raises a transport error (aiohttp.ClientError or a    *)
(* subclass), the operation raises UpdateFailed, chained from that error,   *)
(* and never the transport exception itself.                                *)
C1_TransportErrorIsUpdateFailed ==
    (last.op \in Wrapped /\ TransportError(last.resp)) =>
        /\ UpdateFailed(last.out)
        /\ last.out.cause = last.resp.exc

C1_Witness ==
    /\ last.op = "refresh"
    /\ last.resp = Raise("ClientConnectionError", "", "")
    /\ last.out = Raise("UpdateFailed", "", "ClientConnectionError")

(* C2 as stated: whenever the client of get_project or of the build fetch   *)
(* returns an absent value or an empty build list, the operation raises     *)
(* UpdateFailed with a non-empty message and returns nothing.               *)
C2_EmptyOrAbsentIsUpdateFailed ==
    (/\ last.op \in {"get_project", "refresh"}
     /\ last.resp.kind = "return"
     /\ last.resp.value \in {None_, List(<<>>)}) =>
        /\ UpdateFailed(last.out)
        /\ last.out.msg # ""

(* C2 amended: whenever the client of get_project or of the build fetch     *)
(* returns an absent value (None), the operation raises UpdateFailed with   *)
(* a non-empty message and returns nothing; an empty build list is a value  *)
(* and is passed through into the envelope.                                 *)
C2_AbsentIsUpdateFailed ==
    /\ (/\ last.op \in {"get_project", "refresh"}
        /\ last.resp.kind = "return"
        /\ last.resp.value = None_) =>
           /\ UpdateFailed(last.out)
           /\ last.out.msg # ""
    /\ (/\ last.op = "refresh"
        /\ last.resp = Return(List(<<>>))) =>
           /\ last.out.kind = "return"
           /\ last.out.value.builds = List(<<>>)

C2_Witness ==
    /\ last.op = "refresh"
    /\ last.resp = Return(None_)
    /\ last.out = Raise("UpdateFailed", "No data returned from Azure DevOps", "")

(* C3: when the client call of authorize completes without raising and the  *)
(* client's authorized flag is false afterwards, authorize raises           *)
(* ConfigEntryAuthFailed, which the handler does not turn into UpdateFailed.*)
C3_NotAuthorizedIsAuthFailed ==
    (last.op = "authorize" /\ last.resp.kind = "return" /\ ~authorized) =>
        /\ last.out.kind = "raise"
        /\ last.out.exc = "ConfigEntryAuthFailed"
        /\ ~UpdateFailed(last.out)

C3_Witness ==
    /\ last.op = "authorize"
    /\ last.call.name = "bad-token"
    /\ last.resp.kind = "return"
    /\ ~authorized
    /\ last.out.exc = "ConfigEntryAuthFailed"

(* C4: when the client call of authorize completes and the client reports   *)
(* authorized afterwards, authorize returns True; and whatever authorize    *)
(* returns is True.                                                         *)
C4_AuthorizeReturnsTrue ==
    /\ (last.op = "authorize" /\ last.resp.kind = "return" /\ authorized) =>
           last.out = Return(Bool(TRUE))
    /\ (last.op = "authorize" /\ last.out.kind = "return") =>
           last.out.value = Bool(TRUE)

C4_Witness ==
    /\ last.op = "authorize"
    /\ last.call.name = "good-token"
    /\ authorized
    /\ last.out = Return(Bool(TRUE))

(* C5: a refresh that succeeds returns the envelope made of the             *)
(* coordinator's organization, its stored project and exactly the list the  *)
(* client returned to the get_builds call of that refresh, which was made   *)
(* with the organization, the project's name and the fixed query.           *)
C5_EnvelopeOfRefresh ==
    (last.op = "refresh" /\ last.out.kind = "return") =>
        /\ last.out.value.t = "AzureDevOpsData"
        /\ last.out.value.organization = organization
        /\ last.out.value.project = project
        /\ last.out.value.builds = last.resp.value
        /\ last.call = [op |-> "get_builds", org |-> organization,
                        name |-> project.name,
                        query |-> "?queryOrder=queueTimeDescending&maxBuildsPerDefinition=1"]

C5_Witness ==
    /\ last.op = "refresh"
    /\ last.resp = Return(List(<<1>>))
    /\ last.out = Return([t |-> "AzureDevOpsData", organization |-> "org1",
                          project |-> [t |-> "DevOpsProject", name |-> "proj1"],
                          builds |-> [t |-> "list", items |-> <<1>>]])

(* A step in which a refresh cycle ends, and one in which it ends by        *)
(* returning an envelope.                                                   *)
RefreshEnds == last' # last /\ last'.op = "refresh"
RefreshSucceeds == RefreshEnds /\ last'.out.kind = "return"

(* C6: the builds of the envelope a refresh returns are the list the client *)
(* returned to the get_builds call of that refresh and nothing else,        *)
(* whatever the envelope of the refresh before held.                        *)
C6_BuildsReplacedWholesale ==
    [][RefreshSucceeds =>
          /\ data' = last'.out.value
          /\ data'.builds = last'.resp.value
          /\ prevData' = data]_vars

C6_Witness ==
    /\ last.op = "refresh"
    /\ last.out.kind = "return"
    /\ prevData # Unset
    /\ prevData.builds = List(<<1>>)
    /\ data.builds = List(<<2>>)

(* C7: the host enters Authorized only by an authorize that returned True   *)
(* with the client authorized; an authorize that raised leaves it           *)
(* Unauthenticated; the project is stored when Authorized is left for the   *)
(* update loop; and no get_builds call is issued before that.               *)
C7_Lifecycle ==
    /\ [][(hostPc = "Unauthenticated" /\ hostPc' # "Unauthenticated") =>
             /\ hostPc' = "Authorized"
             /\ last'.op = "authorize"
             /\ last'.out = Return(Bool(TRUE))
             /\ authorized']_vars
    /\ [][(last' # last /\ last'.op = "authorize" /\ last'.out.kind = "raise") =>
             /\ hostPc' = "Unauthenticated"
             /\ ~authorized']_vars
    /\ [][(hostPc = "Authorized" /\ hostPc' # "Authorized") =>
             /\ hostPc' = "Running"
             /\ project = Unset
             /\ project' = last'.out.value
             /\ project'.t = "DevOpsProject"]_vars
    /\ []((fetches > 0 \/ inflight # {}) =>
             /\ hostPc \in {"Running", "Unloaded"}
             /\ authorized
             /\ project # Unset)

C7_Witness ==
    /\ hostPc = "Running"
    /\ authorized
    /\ project = DevOpsProject("proj1")
    /\ inflight # {}
    /\ last.op = "refresh"

(* C8: at most one refresh cycle of the coordinator is in flight, whether   *)
(* refreshes are triggered by the timer or by explicit requests.            *)
C8_OneRefreshInFlight == Cardinality(inflight) <= 1

C8_Witness ==
    /\ last.op = "refresh"
    /\ last.id = 1
    /\ \E c \in inflight : c.id = 2 /\ c.trigger = "request"

(* The fetch of a refresh failed: transport error, absent response, or the  *)
(* task was cancelled while waiting for it.                                 *)
FetchFailed(o) ==
    \/ TransportError(o)
    \/ o = Return(None_)
    \/ o = Raise("CancelledError", "", "")

(* C9: a refresh whose fetch fails or is cancelled raises, returns no       *)
(* envelope, leaves the envelope returned before untouched and issues no    *)
(* further get_builds call; a cycle issues at most one get_builds call; and *)
(* no step of a refresh changes organization or project.                    *)
C9_FailedRefreshExposesNothing ==
    /\ [][(RefreshEnds /\ FetchFailed(last'.resp)) =>
             /\ last'.out.kind = "raise"
             /\ last'.out.value.t # "AzureDevOpsData"
             /\ data' = data
             /\ prevData' = prevData
             /\ fetches' = fetches
             /\ \A c \in inflight' : c \in inflight /\ c.id # last'.id]_vars
    /\ [][(RefreshEnds \/ started' # started) =>
             /\ organization' = organization
             /\ project' = project
             /\ fetches' <= fetches + 1]_vars
    /\ [](fetches <= started)

C9_Witness ==
    /\ last.op = "refresh"
    /\ last.resp = Raise("CancelledError", "", "")
    /\ last.out.kind = "raise"
    /\ data # Unset
    /\ data.builds = List(<<1, 2>>)

(* C10: an exception raised inside a wrapped operation that is not a        *)
(* transport error (ConfigEntryAuthFailed, the AttributeError of a refresh  *)
(* without a stored project, any other) reaches the caller unchanged, and   *)
(* UpdateFailed is raised only for a transport error or an absent result.   *)
C10_OtherExceptionsPropagate ==
    /\ (last.inner.kind = "raise" /\ ~TransportError(last.inner)) =>
           last.out = last.inner
    /\ UpdateFailed(last.out) =>
           \/ TransportError(last.resp)
           \/ last.inner = Return(None_)
    /\ (last.op = "refresh" /\ last.call.op = "none") =>
           last.out.exc = "AttributeError"

C10_Witness ==
    /\ last.op = "refresh"
    /\ last.resp = Raise("TimeoutError", "", "")
    /\ last.out = Raise("TimeoutError", "", "")

====
